---- MODULE Spec2Model ----
(***************************************************************************)
(* Model of src/main.rs: the Fibonacci AIR (FibonacciAir::width, ::eval),  *)
(* the trace generator generate_fibonacci_trace, and the part of main that *)
(* uses them (air construction, generation, visualisation export, prove,   *)
(* verify) over the Mersenne31 field.                                      *)
(*                                                                         *)
(* Field elements are modelled by their canonical representative in        *)
(* 0..P-1.  A u32 is modelled as a record [msb, low] standing for          *)
(* msb * 2^31 + low, because TLC's integers stop at 2^31 - 1.              *)
(* A String of decimal digits is modelled as the sequence of its digits.   *)
(***************************************************************************)
EXTENDS Integers, Sequences, FiniteSets, TLC

VARIABLES
    pc,            \* position of the running program
    air,           \* FibonacciAir { num_steps, final_value }
    values,        \* generate_fibonacci_trace: let mut values
    a,             \* generate_fibonacci_trace: let mut a
    b,             \* generate_fibonacci_trace: let mut b
    i,             \* loop counter of the running for loop
    trace,         \* the RowMajorMatrix returned by the generator
    trace_matrix,  \* main: let mut trace_matrix (Vec<Vec<String>>)
    file,          \* contents of web/trace_data.json (<<>>: not written)
    proof,         \* what prove was handed and returned (<<>>: not called)
    verified,      \* what verify was handed and returned (<<>>: not called)
    first,         \* test harness: the trace returned by an earlier call
    tampered,      \* test harness: the cell overwritten in the trace
    violations     \* test harness: assertions found violated by the re-check

vars == <<pc, air, values, a, b, i, trace, trace_matrix, file, proof,
          verified, first, tampered, violations>>

-----------------------------------------------------------------------------
(* Bounds *)

\* Largest num_steps drawn.  Fib(47) is the first Fibonacci number above the
\* modulus, so row 46 is the first whose column 1 is reduced.
MaxSteps == 48

-----------------------------------------------------------------------------
(* The field: type Val = Mersenne31 *)

\* Mersenne31's modulus 2^31 - 1.
P == 2147483647

Field == 0..(P - 1)

\* F::ZERO and F::ONE
ZERO == 0
ONE == 1

\* Field addition; x, y canonical.  Written so that no intermediate exceeds P.
FAdd(x, y) == IF x >= P - y THEN x - (P - y) ELSE x + y

\* A u32 as its top bit and its low 31 bits.
U32(msb, low) == [msb |-> msb, low |-> low]

\* from_u32: the low 31 bits plus the top bit (2^31 = 1 in the field), reduced.
from_u32(u) == FAdd(u.low % P, u.msb)

\* A small u32 literal.
Lit(n) == U32(0, n)

\* Display of a field element: the decimal digits of its canonical value.
RECURSIVE to_string(_)
to_string(v) == IF v < 10 THEN <<v>> ELSE Append(to_string(v \div 10), v % 10)

-----------------------------------------------------------------------------
(* RowMajorMatrix *)

\* RowMajorMatrix::new(values, width)
RowMajorMatrix(vals, w) == [values |-> vals, width |-> w]

\* No matrix yet (the variable is unassigned).
NoTrace == RowMajorMatrix(<<>>, 0)

\* Matrix::height: len / width
height(m) == IF m.width = 0 THEN 0 ELSE Len(m.values) \div m.width

\* Matrix::row_slice(r).unwrap() for r < height; columns are 1-based here.
row_slice(m, r) == SubSeq(m.values, r * m.width + 1, (r + 1) * m.width)

-----------------------------------------------------------------------------
(* FibonacciAir *)

FibonacciAir(n, fv) == [num_steps |-> n, final_value |-> fv]

\* BaseAir::width
width == 2

\* The row selectors the builder hands to eval for the window at row r of m:
\* when_first_row, when_last_row, when_transition.
is_first_row(m, r) == r = 0
is_last_row(m, r) == r = height(m) - 1
is_transition(m, r) == r # height(m) - 1

\* Faulty variants of two assertions: the first transition assertion left out,
\* and the last-row assertion reading column 0.
trans0_off(local, next) == TRUE
last1_col0(self, local) == local[1] = from_u32(self.final_value)

\* The five assertions eval emits, over the window (local, next).
first0(local) == local[1] = ZERO
first1(local) == local[2] = ONE
trans0(local, next) == next[1] = local[2]
trans1(local, next) == next[2] = FAdd(local[1], local[2])
last1(self, local) == local[2] = from_u32(self.final_value)

\* eval on the window at row r of m (next wraps to row 0 after the last row):
\* the names of the assertions that do not vanish there.  num_steps is not
\* read.
eval(self, m, r) ==
    LET local == row_slice(m, r)
        next  == row_slice(m, (r + 1) % height(m))
    IN  {n \in {"first0"} : is_first_row(m, r) /\ ~first0(local)}
        \cup {n \in {"first1"} : is_first_row(m, r) /\ ~first1(local)}
        \cup {n \in {"trans0"} : is_transition(m, r) /\ ~trans0(local, next)}
        \cup {n \in {"trans1"} : is_transition(m, r) /\ ~trans1(local, next)}
        \cup {n \in {"last1"} : is_last_row(m, r) /\ ~last1(self, local)}

\* Every (row, assertion) of m that eval finds violated.
Violations(self, m) ==
    UNION {{<<r, n>> : n \in eval(self, m, r)} : r \in 0..(height(m) - 1)}

-----------------------------------------------------------------------------
(* Reference: the Fibonacci numbers in the naturals, reduced mod P.  Naturals *)
(* are little-endian sequences of decimal digits.                            *)

RECURSIVE AddDec(_, _, _)
AddDec(x, y, carry) ==
    IF x = <<>> /\ y = <<>>
    THEN IF carry = 0 THEN <<>> ELSE <<carry>>
    ELSE LET dx == IF x = <<>> THEN 0 ELSE Head(x)
             dy == IF y = <<>> THEN 0 ELSE Head(y)
             s  == dx + dy + carry
         IN  <<s % 10>> \o AddDec(IF x = <<>> THEN x ELSE Tail(x),
                                  IF y = <<>> THEN y ELSE Tail(y), s \div 10)

\* <<Fib(0), ..., Fib(n)>>, Fib(0) = 0, Fib(1) = 1.
RECURSIVE FibDecs(_)
FibDecs(n) ==
    IF n = 0 THEN << <<0>> >>
    ELSE IF n = 1 THEN << <<0>>, <<1>> >>
    ELSE LET s == FibDecs(n - 1) IN Append(s, AddDec(s[n - 1], s[n], 0))

\* 10 * x mod P
Mul10(x) == LET x2 == FAdd(x, x) x4 == FAdd(x2, x2) x8 == FAdd(x4, x4)
            IN  FAdd(x8, x2)

\* A decimal natural mod P.
RECURSIVE DecMod(_)
DecMod(d) == IF d = <<>> THEN 0 ELSE FAdd(Mul10(DecMod(Tail(d))), Head(d))

FibModP == LET s == FibDecs(MaxSteps + 2)
           IN  [n \in 0..(MaxSteps + 2) |-> DecMod(s[n + 1])]

\* Fib(n) mod P
FibMod(n) == FibModP[n]

-----------------------------------------------------------------------------
(* generate_fibonacci_trace *)

\* Faulty variants of the generator's pieces: a left over from an earlier call,
\* b started at zero, one iteration too many, only b pushed, c added as a
\* 31-bit machine integer (wrapping at 2^31), and a taking c.
InitA_stale == a
InitB_zero == ZERO
LoopBound_more(num_steps) == num_steps + 1
Push_one(vals, x, y) == Append(vals, y)
Fib_c_wrap(x, y) == IF x > P - y THEN x - (P - y) - 1 ELSE x + y
NextA_c(x, y, c) == c

\* let mut a = F::ZERO; let mut b = F::ONE;
InitA == ZERO
InitB == ONE

\* for _ in 0..num_steps
LoopBound(num_steps) == num_steps

\* values.push(a); values.push(b);
Push(vals, x, y) == vals \o <<x, y>>

\* let c = a + b;
Fib_c(x, y) == FAdd(x, y)

\* a = b; b = c;
NextA(x, y, c) == y
NextB(x, y, c) == c

\* Entry: Vec::with_capacity(num_steps * 2), a, b and the loop counter.
GenEnter ==
    /\ pc = "call_generate"
    /\ values' = <<>>
    /\ a' = InitA
    /\ b' = InitB
    /\ i' = 0
    /\ pc' = "gen_loop"
    /\ UNCHANGED <<air, trace, trace_matrix, file, proof, verified, first,
                   tampered, violations>>

\* One iteration of the for loop.
GenStep ==
    /\ pc = "gen_loop"
    /\ i < LoopBound(air.num_steps)
    /\ values' = Push(values, a, b)
    /\ LET c == Fib_c(a, b)
       IN  /\ a' = NextA(a, b, c)
           /\ b' = NextB(a, b, c)
    /\ i' = i + 1
    /\ UNCHANGED <<pc, air, trace, trace_matrix, file, proof, verified, first,
                   tampered, violations>>

\* RowMajorMatrix::new(values, 2), bound to main's trace.
GenReturn ==
    /\ pc = "gen_loop"
    /\ i >= LoopBound(air.num_steps)
    /\ trace' = RowMajorMatrix(values, 2)
    /\ pc' = "generated"
    /\ UNCHANGED <<air, values, a, b, i, trace_matrix, file, proof, verified,
                   first, tampered, violations>>

-----------------------------------------------------------------------------
(* main *)

\* Faulty variant of the row read: the row's elements are taken out of the
\* trace, leaving zeros.
TraceAfterRowRead_take(m, r) ==
    [m EXCEPT !.values = [k \in 1..Len(m.values) |->
        IF (k - 1) \div m.width = r THEN ZERO ELSE m.values[k]]]

\* What the row loop leaves of the trace after reading row r: row_slice
\* borrows, iter().map(to_string) reads.
TraceAfterRowRead(m, r) == m

\* The stringified row r.
StringRow(m, r) == [c \in 1..m.width |-> to_string(row_slice(m, r)[c])]

\* VisData { num_steps, trace }
VisData(n, tm) == [num_steps |-> n, trace |-> tm]

\* The arguments main passes to prove and to verify.
ProveArgs == [air |-> air, trace |-> trace, public_inputs |-> <<>>]
VerifyArgs == [air |-> air, proof |-> proof[1], public_inputs |-> <<>>]

\* let mut trace_matrix = Vec::new();
ExportBegin ==
    /\ pc = "generated"
    /\ trace_matrix' = <<>>
    /\ i' = 0
    /\ pc' = "export_loop"
    /\ UNCHANGED <<air, values, a, b, trace, file, proof, verified, first,
                   tampered, violations>>

\* for i in 0..trace.height() { ... trace_matrix.push(row) }
ExportRow ==
    /\ pc = "export_loop"
    /\ i < height(trace)
    /\ trace_matrix' = Append(trace_matrix, StringRow(trace, i))
    /\ trace' = TraceAfterRowRead(trace, i)
    /\ i' = i + 1
    /\ UNCHANGED <<pc, air, values, a, b, file, proof, verified, first,
                   tampered, violations>>

\* vis_data, to_string_pretty, create_dir_all, File::create, write_all; each
\* of the file-system calls either succeeds or panics.
ExportFile ==
    /\ pc = "export_loop"
    /\ i >= height(trace)
    /\ \/ /\ file' = <<VisData(air.num_steps, trace_matrix)>>
          /\ pc' = "exported"
       \/ /\ file' = file
          /\ pc' = "panicked"
    /\ UNCHANGED <<air, values, a, b, i, trace, trace_matrix, proof, verified,
                   first, tampered, violations>>

\* let proof = prove(&config, &air, trace, &vec![]); the backend returns a
\* proof or panics.
Prove ==
    /\ pc = "exported"
    /\ \/ /\ proof' = <<ProveArgs>>
          /\ pc' = "proved"
       \/ /\ proof' = proof
          /\ pc' = "panicked"
    /\ UNCHANGED <<air, values, a, b, i, trace, trace_matrix, file, verified,
                   first, tampered, violations>>

\* verify(&config, &air, &proof, &vec![]); the backend's verdict is main's
\* return value.
Verify ==
    /\ pc = "proved"
    /\ \E r \in {"Ok", "Err"} : verified' = <<[args |-> VerifyArgs, result |-> r]>>
    /\ pc' = "done"
    /\ UNCHANGED <<air, values, a, b, i, trace, trace_matrix, file, proof,
                   first, tampered, violations>>

-----------------------------------------------------------------------------
(* The inputs drawn *)

\* final_value candidates for n steps: main's literal, zero, Fib(n) mod P, the
\* same plus P (a u32 above the modulus), and Fib(n) mod P plus one.
FinalValues(n) ==
    LET r == FibMod(n)
    IN  {Lit(21), Lit(0), Lit(r), Lit(r + 1),
         IF r = 0 THEN U32(0, P) ELSE U32(1, r - 1)}

\* let air = FibonacciAir { num_steps, final_value }; main's literals are
\* num_steps = 8, final_value = 21.
Init ==
    /\ pc = "call_generate"
    /\ \E n \in 0..MaxSteps : \E fv \in FinalValues(n) : air = FibonacciAir(n, fv)
    /\ values = <<>>
    /\ a = 0
    /\ b = 0
    /\ i = 0
    /\ trace = NoTrace
    /\ trace_matrix = <<>>
    /\ file = <<>>
    /\ proof = <<>>
    /\ verified = <<>>
    /\ first = <<>>
    /\ tampered = <<>>
    /\ violations = {}

Next ==
    \/ GenEnter
    \/ GenStep
    \/ GenReturn
    \/ ExportBegin
    \/ ExportRow
    \/ ExportFile
    \/ Prove
    \/ Verify

Spec == Init /\ [][Next]_vars

-----------------------------------------------------------------------------
(* Test harness: the properties of the generator and of eval that main does  *)
(* not exercise itself: a second call, a single-cell mutation, and a local   *)
(* re-check of eval's assertions on every row.                               *)

\* The 0-based (row, column) of the k-th element of the backing sequence.
CellRow(k) == (k - 1) \div width
CellCol(k) == (k - 1) % width

\* Replacement values tried for the element at k: the small and large field
\* constants, the element's neighbours in the field, and every element of the
\* rows around it; never the element itself.
TamperValues(m, k) ==
    LET v == m.values[k]
        near == {j \in 1..Len(m.values) : j >= k - 2 * width /\ j <= k + 2 * width}
    IN  ({0, 1, 2, P - 1, FAdd(v, 1), FAdd(v, P - 1)}
         \cup {m.values[j] : j \in near}) \ {v}

\* Call the generator once more with the same num_steps, keeping the first
\* result aside.
CallAgain ==
    /\ pc = "generated"
    /\ first = <<>>
    /\ tampered = <<>>
    /\ first' = <<trace>>
    /\ pc' = "call_generate"
    /\ UNCHANGED <<air, values, a, b, i, trace, trace_matrix, file, proof,
                   verified, tampered, violations>>

\* Overwrite exactly one element of the generated trace with another value.
Tamper ==
    /\ pc = "generated"
    /\ first = <<>>
    /\ tampered = <<>>
    /\ \E k \in 1..Len(trace.values) : \E v \in TamperValues(trace, k) :
          /\ trace' = [trace EXCEPT !.values[k] = v]
          /\ tampered' = <<[row |-> CellRow(k), col |-> CellCol(k), value |-> v]>>
    /\ UNCHANGED <<pc, air, values, a, b, i, trace_matrix, file, proof,
                   verified, first, violations>>

\* Evaluate eval's assertions on every row of the trace.
Recheck ==
    /\ pc = "generated"
    /\ violations' = Violations(air, trace)
    /\ pc' = "rechecked"
    /\ UNCHANGED <<air, values, a, b, i, trace, trace_matrix, file, proof,
                   verified, first, tampered>>

NextTest ==
    \/ GenEnter
    \/ GenStep
    \/ GenReturn
    \/ CallAgain
    \/ Tamper
    \/ Recheck

SpecTest == Init /\ [][NextTest]_vars

-----------------------------------------------------------------------------
(* Properties *)

\* The generator has returned.
Returned == trace # NoTrace

\* The last row of the returned trace.
LastRow == row_slice(trace, height(trace) - 1)

\* final_value, converted into the field, is Fib(num_steps) mod P.
FinalValueMatches == from_u32(air.final_value) = FibMod(air.num_steps)

\* C1: on the returned trace both transition assertions of eval hold on every
\* adjacent row pair: for all r in [0, height-2], row r+1 column 0 equals row r
\* column 1, and row r+1 column 1 equals the field sum of row r's columns.
C1_TransitionSatisfied ==
    Returned =>
        \A r \in 0..(height(trace) - 2) :
            LET local == row_slice(trace, r)
                next  == row_slice(trace, r + 1)
            IN  /\ trans0(local, next)
                /\ trans1(local, next)
                /\ next[1] = local[2]
                /\ next[2] = FAdd(local[1], local[2])

\* C1 witness: a returned trace with an adjacent pair whose sum was reduced by
\* the modulus (column 1 decreases from one row to the next).
C1_Witness ==
    /\ Returned
    /\ \E r \in 0..(height(trace) - 2) :
          /\ row_slice(trace, r + 1)[2] < row_slice(trace, r)[2]
          /\ trans1(row_slice(trace, r), row_slice(trace, r + 1))

\* C2 as stated: for every FibonacciAir {num_steps, final_value}, column 1 of
\* the last row of the generated trace equals final_value converted into the
\* field.
C2_Original ==
    Returned /\ height(trace) >= 1 => LastRow[2] = from_u32(air.final_value)

\* C2 amended: when final_value converted into the field equals
\* Fib(num_steps) mod P, column 1 of the last row of the generated trace equals
\* final_value converted into the field, i.e. eval's last-row assertion holds.
C2_TerminalSatisfied ==
    Returned /\ height(trace) >= 1 /\ FinalValueMatches =>
        /\ LastRow[2] = from_u32(air.final_value)
        /\ last1(air, LastRow)

\* C2 witness: main's own parameters, 8 steps and final value 21.
C2_Witness ==
    /\ Returned
    /\ air = FibonacciAir(8, Lit(21))
    /\ FinalValueMatches
    /\ LastRow[2] = 21

\* C3: row 0 of the returned trace is (field zero, field one), the constants
\* eval asserts under when_first_row.
C3_BoundarySatisfied ==
    Returned /\ height(trace) >= 1 =>
        LET local == row_slice(trace, 0)
        IN  /\ first0(local)
            /\ first1(local)
            /\ local = <<ZERO, ONE>>

\* C3 witness: a returned trace of several rows whose row 0 is (0, 1).
C3_Witness ==
    /\ Returned
    /\ height(trace) >= 2
    /\ is_first_row(trace, 0)
    /\ row_slice(trace, 0) = <<0, 1>>

\* C4: for n steps, every row r < n of the returned trace exists and equals
\* (Fib(r) mod P, Fib(r+1) mod P); for n = 8 the rows are (0,1),(1,1),(1,2),
\* (2,3),(3,5),(5,8),(8,13),(13,21) and row 7 column 1 is 21.
C4_FieldFibonacci ==
    Returned =>
        /\ \A r \in 0..(air.num_steps - 1) :
              /\ r < height(trace)
              /\ row_slice(trace, r) = <<FibMod(r), FibMod(r + 1)>>
        /\ air.num_steps = 8 =>
              /\ trace.values = <<0, 1, 1, 1, 1, 2, 2, 3, 3, 5, 5, 8, 8, 13, 13, 21>>
              /\ row_slice(trace, 7)[2] = 21

\* C4 witness: a returned trace whose row 46 holds Fib(47) = 2971215073 reduced
\* by the modulus, 823731426.
C4_Witness ==
    /\ Returned
    /\ height(trace) >= 47
    /\ row_slice(trace, 46) = <<1836311903, 823731426>>

\* C5: when final_value converted equals the generated last row's column 1,
\* a trace that differs from the generated one in exactly one element makes
\* the re-check find at least one violated assertion.
C5_MutationDetected ==
    (/\ pc = "rechecked"
     /\ tampered # <<>>
     /\ from_u32(air.final_value) = values[Len(values)])
    => violations # {}

\* C5 witness: an interior element overwritten with the value of a
\* neighbouring row, re-checked and found violating.
C5_Witness ==
    /\ pc = "rechecked"
    /\ tampered # <<>>
    /\ from_u32(air.final_value) = values[Len(values)]
    /\ tampered[1].row > 0
    /\ tampered[1].row < height(trace) - 1
    /\ tampered[1].value = row_slice(trace, tampered[1].row + 1)[2]
    /\ violations # {}

\* C6 as stated: every trace the generator returns has at least two rows.
C6_HeightAtLeastTwo == Returned => height(trace) >= 2

\* C7: the returned trace has the width FibonacciAir::width declares and a
\* height equal to num_steps; its backing sequence has length 2 * num_steps, a
\* multiple of the width.
C7_Shape ==
    Returned =>
        /\ trace.width = width
        /\ Len(trace.values) = 2 * air.num_steps
        /\ Len(trace.values) % trace.width = 0
        /\ height(trace) = air.num_steps

\* C7 witness: the 8-step trace, 16 elements in 8 rows of 2.
C7_Witness ==
    /\ Returned
    /\ air.num_steps = 8
    /\ Len(trace.values) = 16
    /\ height(trace) = 8

\* C8: a second call with the same num_steps returns a trace identical in
\* width, height and every element to the first.
C8_Deterministic ==
    (/\ pc = "generated"
     /\ first # <<>>)
    => /\ trace.width = first[1].width
       /\ height(trace) = height(first[1])
       /\ trace.values = first[1].values

\* C8 witness: the second call has returned a trace of several rows, entered
\* with a and b left over from the first call.
C8_Witness ==
    /\ pc = "generated"
    /\ first # <<>>
    /\ height(first[1]) >= 8
    /\ trace = first[1]

\* C9: once returned the trace never changes; prove is handed the trace the
\* generator returned, with the air and empty public inputs, only after the
\* file was written; verify is handed that proof, the same air and empty public
\* inputs, only after prove.
C9_TraceReadOnly ==
    /\ [][Returned => trace' = trace]_vars
    /\ [](proof # <<>> =>
            /\ file # <<>>
            /\ proof[1].trace = RowMajorMatrix(values, 2)
            /\ proof[1].air = air
            /\ proof[1].public_inputs = <<>>)
    /\ [](verified # <<>> =>
            /\ proof # <<>>
            /\ verified[1].args.proof = proof[1]
            /\ verified[1].args.air = air
            /\ verified[1].args.public_inputs = <<>>)

\* C9 witness: main ran to the end on a trace of 8 rows, all of them exported.
C9_Witness ==
    /\ pc = "done"
    /\ height(trace) = 8
    /\ Len(trace_matrix) = 8
    /\ file # <<>>
    /\ proof[1].trace = trace

\* C10: for n >= 1 steps the generated trace satisfies all of eval's assertions
\* on every row exactly when final_value converted into the field equals
\* Fib(n) mod P, which is column 1 of row n-1; for n = 0 the trace has no rows
\* and nothing is violated, whatever final_value is.
C10_FinalValueDecides ==
    (/\ pc = "rechecked"
     /\ tampered = <<>>)
    => IF air.num_steps >= 1
       THEN /\ row_slice(trace, air.num_steps - 1)[2] = FibMod(air.num_steps)
            /\ (violations = {}) <=> FinalValueMatches
       ELSE /\ height(trace) = 0
            /\ violations = {}

\* C10 witness: 8 steps re-checked with final_value = 21 + P, a u32 that is not
\* 21 but converts to it: nothing is violated.
C10_Witness ==
    /\ pc = "rechecked"
    /\ tampered = <<>>
    /\ air = FibonacciAir(8, U32(1, 20))
    /\ violations = {}

====
